---- MODULE Spec2Model ----
(***************************************************************************)
(* WalletLinkProvider (src/js/src/WalletLinkProvider.ts): the injected     *)
(* Ethereum provider.  The model covers the authorized-address store, the  *)
(* request dispatcher over its calling conventions, the request-accounts   *)
(* linking flow and the relay-backed signing methods.                      *)
(*                                                                         *)
(* Strings that the code inspects (addresses, relay error messages, the    *)
(* storage key) are sequences of one-character strings, so that case       *)
(* folding, prefixing and substring search are computed, not assumed.      *)
(***************************************************************************)
EXTENDS Integers, Sequences, FiniteSets, Bags, TLC

\* ------------------------------------------------------------------ bounds
\* Calls that may be awaiting a delegate at the same time.
MaxPending == 2
\* Of these, the calls of methods other than request-accounts.
MaxDelegated == 1
\* Linking windows one provider instance may open during its lifetime.
MaxWindows == 2
\* Requests in one batch.
MaxBatch == 2

\* ------------------------------------------------------------ text helpers
UpperChars == <<"A", "B", "C", "D", "E", "F", "G", "I", "J", "N", "R", "T", "X">>
LowerChars == <<"a", "b", "c", "d", "e", "f", "g", "i", "j", "n", "r", "t", "x">>

\* String.prototype.toLowerCase on one character.
ToLowerChar(c) ==
    IF \E i \in 1..Len(UpperChars) : UpperChars[i] = c
    THEN LowerChars[CHOOSE i \in 1..Len(UpperChars) : UpperChars[i] = c]
    ELSE c

ToLower(s) == [i \in 1..Len(s) |-> ToLowerChar(s[i])]

\* sub occurs in s as a contiguous run.
Contains(s, sub) ==
    \E i \in 0..(Len(s) - Len(sub)) :
        \A j \in 1..Len(sub) : s[i + j] = sub[j]

DigitChars == <<"0", "1", "2", "3", "4", "5", "6", "7", "8", "9">>

\* Number.prototype.toString(10) for a non-negative integer.
RECURSIVE ToDecimal(_)
ToDecimal(n) ==
    IF n < 10 THEN <<DigitChars[n + 1]>>
    ELSE ToDecimal(n \div 10) \o <<DigitChars[(n % 10) + 1]>>

\* ---------------------------------------------------------------- errors
NoError == [name |-> "none", msgIsString |-> TRUE, message |-> <<>>, code |-> "none", data |-> "none"]

\* new Error(message)
PlainError(msg) ==
    [name |-> "Error", msgIsString |-> TRUE, message |-> msg, code |-> "none", data |-> "none"]

\* new ProviderError(message, code, data)
ProviderErrorWithData(msg, code, data) ==
    [name |-> "ProviderError", msgIsString |-> TRUE, message |-> msg, code |-> code,
     data |-> data]

\* new ProviderError(message, code)
ProviderError(msg, code) ==
    [name |-> "ProviderError", msgIsString |-> TRUE, message |-> msg, code |-> code, data |-> "none"]

\* The message text the relay may reject with.
RelayMessages ==
    { <<"D", "e", "n", "i", "e", "d">>,
      <<"x", " ", "R", "E", "J", "E", "C", "T", "E", "D", "!">>,
      <<"r", "e", "j", "e", "c", "t", " ", "e", "d">>,
      <<"t", "i", "m", "e", "o", "u", "t">> }

\* What a relay promise may reject with: an error carrying a message, or a
\* value whose message is not a string.
RelayErrors ==
    { [name |-> "RelayError", msgIsString |-> TRUE, message |-> m, code |-> "relay", data |-> "none"] :
        m \in RelayMessages }
    \cup { [name |-> "RelayError", msgIsString |-> FALSE, message |-> <<>>, code |-> "relay", data |-> "none"] }

\* typeof err.message === "string" && err.message.match(/(denied|rejected)/i)
\* The variant below is the pattern without its i flag.
MatchesDenialCaseSensitive(err) ==
    /\ err.msgIsString
    /\ \/ Contains(err.message, <<"d", "e", "n", "i", "e", "d">>)
       \/ Contains(err.message, <<"r", "e", "j", "e", "c", "t", "e", "d">>)

MatchesDenial(err) ==
    /\ err.msgIsString
    /\ \/ Contains(ToLower(err.message), <<"d", "e", "n", "i", "e", "d">>)
       \/ Contains(ToLower(err.message), <<"r", "e", "j", "e", "c", "t", "e", "d">>)

\* ------------------------------------------------------------- addresses
\* Number of hex digits of an address body (40 in an Ethereum address; the
\* model's addresses are shortened to keep the text small).
AddressHexLen == 2

HexChars == {"0", "1", "2", "3", "4", "5", "6", "7", "8", "9",
             "a", "b", "c", "d", "e", "f"}

A1 == <<"0", "x", "a", "b">>
A2 == <<"0", "x", "c", "1">>
A3 == <<"0", "x", "0", "f">>

\* Address strings a collaborator may hand to the provider: normalized,
\* upper-case, without prefix, with a non-hex digit, too short, empty.
AddressInputs ==
    { A1, A2, A3, <<"0", "x", "A", "B">>, <<"C", "1">>,
      <<"0", "x", "g", "1">>, <<"0", "x", "a">>, <<>> }

HasPrefix(s) == Len(s) >= 2 /\ s[1] = "0" /\ s[2] = "x"

Strip0x(s) == IF HasPrefix(s) THEN SubSeq(s, 3, Len(s)) ELSE s

\* ensureAddressString accepts the value.
IsAddress(s) ==
    LET body == ToLower(Strip0x(s))
    IN  Len(body) = AddressHexLen /\ \A i \in 1..Len(body) : body[i] \in HexChars

\* ensureAddressString's result for an accepted value: lower case, 0x prefix.
EnsureAddressString(s) == <<"0", "x">> \o ToLower(Strip0x(s))

\* --------------------------------------------------------------- values
\* A loosely typed value (a stored item, a relay result): an array of
\* strings, an absent/falsy value, or a truthy value that is no array.
Arr(items) == [kind |-> "array", items |-> items]
Absent == [kind |-> "absent", items |-> <<>>]
NonArray == [kind |-> "object", items |-> <<>>]
\* walletLinkStorage.getItem fails on this slot.
Unreadable == [kind |-> "unreadable", items |-> <<>>]

Truthy(v) == v.kind \in {"array", "object"}

\* Lists the relay may resolve request-accounts with, and the storage may hold.
AddressLists ==
    { <<>>, <<A1, A2>>, <<<<"0", "x", "A", "B">>, <<"C", "1">>>>,
      <<A1, <<"0", "x", "g", "1">>>>, <<<<"0", "x", "a">>, A2>> }

LooseValues == { Arr(l) : l \in AddressLists } \cup { Absent, NonArray }

\* ------------------------------------------------------------ identity
DEFAULT_APP_NAME == <<"D", "A", "p", "p">>

RpcUrl == <<"u">>

\* The options a page may construct the provider with: relay given or not,
\* appName and chainId given or left out (<<>> and 0), jsonRpcUrl given or empty.
Options ==
    [relay : BOOLEAN,
     appName : {<<>>, DEFAULT_APP_NAME},
     chainId : {0, 1, 42},
     jsonRpcUrl : {<<>>, RpcUrl}]

\* The constructor's guards on options.relay and options.jsonRpcUrl.
OptionsAccepted(o) == o.relay /\ o.jsonRpcUrl # <<>>

\* _appName, _chainId, _jsonRpcUrl as the constructor sets them.
ConfigOf(o) ==
    [appName |-> IF o.appName = <<>> THEN DEFAULT_APP_NAME ELSE o.appName,
     chainId |-> IF o.chainId = 0 THEN 1 ELSE o.chainId,
     jsonRpcUrl |-> o.jsonRpcUrl]

Configs == { ConfigOf(o) : o \in { x \in Options : OptionsAccepted(x) } }

\* _providerId: the digest of [appName, chainId, jsonRpcUrl].join().  The
\* digest is kept as the joined text itself (equal inputs, equal identity).
ProviderId(cfg) ==
    cfg.appName \o <<",">> \o ToDecimal(cfg.chainId) \o <<",">> \o cfg.jsonRpcUrl

\* _localStorageAddressesKey
LocalStorageAddressesKey(cfg) ==
    <<"WalletLinkProvider:">> \o ProviderId(cfg) \o <<":addresses">>

StorageKeys == { LocalStorageAddressesKey(c) : c \in Configs }

\* --------------------------------------------------------- address store
\* Outcome of _setAddresses(input, persist) on a provider whose list is old,
\* over storage store; writeOk says whether walletLinkStorage.setItem succeeds.
\* The variant below assigns entry by entry, keeping those accepted before a
\* bad one.
RECURSIVE AcceptedPrefix(_)
AcceptedPrefix(items) ==
    IF items = <<>> \/ ~IsAddress(Head(items)) THEN <<>>
    ELSE <<EnsureAddressString(Head(items))>> \o AcceptedPrefix(Tail(items))

SetAddressesPartial(old, input, persist, key, store, writeOk) ==
    IF input.kind # "array"
    THEN [threw |-> TRUE, error |-> PlainError(<<"addresses is not an array">>),
          addresses |-> old, storage |-> store, emitted |-> FALSE]
    ELSE IF \E i \in 1..Len(input.items) : ~IsAddress(input.items[i])
    THEN [threw |-> TRUE, error |-> PlainError(<<"Invalid Ethereum address">>),
          addresses |-> AcceptedPrefix(input.items), storage |-> store,
          emitted |-> FALSE]
    ELSE LET new == [i \in 1..Len(input.items) |-> EnsureAddressString(input.items[i])]
         IN  IF persist /\ ~writeOk
             THEN [threw |-> TRUE, error |-> PlainError(<<"storage write failed">>),
                   addresses |-> new, storage |-> store, emitted |-> FALSE]
             ELSE [threw |-> FALSE, error |-> NoError, addresses |-> new,
                   storage |-> IF persist THEN [store EXCEPT ![key] = Arr(new)]
                               ELSE store,
                   emitted |-> TRUE]

SetAddresses(old, input, persist, key, store, writeOk) ==
    IF input.kind # "array"
    THEN [threw |-> TRUE, error |-> PlainError(<<"addresses is not an array">>),
          addresses |-> old, storage |-> store, emitted |-> FALSE]
    ELSE IF \E i \in 1..Len(input.items) : ~IsAddress(input.items[i])
    THEN [threw |-> TRUE, error |-> PlainError(<<"Invalid Ethereum address">>),
          addresses |-> old, storage |-> store, emitted |-> FALSE]
    ELSE LET new == [i \in 1..Len(input.items) |-> EnsureAddressString(input.items[i])]
         IN  IF persist /\ ~writeOk
             THEN [threw |-> TRUE, error |-> PlainError(<<"storage write failed">>),
                   addresses |-> new, storage |-> store, emitted |-> FALSE]
             ELSE [threw |-> FALSE, error |-> NoError, addresses |-> new,
                   storage |-> IF persist THEN [store EXCEPT ![key] = Arr(new)]
                               ELSE store,
                   emitted |-> TRUE]

\* The constructor's restore step: the list the new instance starts with and
\* whether _setAddresses ran to its emit.  Everything thrown is caught.  The
\* variant below takes a stored array as it is.
RestoreUnvalidated(cfg, store) ==
    LET item == store[LocalStorageAddressesKey(cfg)]
    IN  IF item.kind = "array"
        THEN [addresses |-> item.items, emitted |-> TRUE, setCalled |-> TRUE]
        ELSE [addresses |-> <<>>, emitted |-> FALSE, setCalled |-> FALSE]

Restore(cfg, store) ==
    LET key == LocalStorageAddressesKey(cfg)
        item == store[key]
    IN  IF item.kind = "unreadable" \/ ~Truthy(item)
        THEN [addresses |-> <<>>, emitted |-> FALSE, setCalled |-> FALSE]
        ELSE LET r == SetAddresses(<<>>, item, FALSE, key, store, TRUE)
             IN  [addresses |-> r.addresses, emitted |-> r.emitted, setCalled |-> TRUE]

\* -------------------------------------------------------------- methods
SyncMethods == {"eth_accounts", "eth_coinbase", "net_version", "eth_uninstallFilter"}

RelayMethods ==
    {"eth_requestAccounts", "eth_sign", "eth_ecRecover", "personal_sign",
     "personal_ecRecover", "eth_signTransaction", "eth_sendRawTransaction",
     "eth_sendTransaction"}

FilterMethods ==
    {"eth_newFilter", "eth_newBlockFilter", "eth_newPendingTransactionFilter",
     "eth_getFilterChanges", "eth_getFilterLogs"}

\* A method of no table: it goes to the JSON-RPC endpoint.
OtherMethods == {"eth_blockNumber"}

Methods == SyncMethods \cup RelayMethods \cup FilterMethods \cup OtherMethods

TransactionMethods == {"eth_signTransaction", "eth_sendTransaction"}

\* Methods whose handler reads its parameters.
ParamMethods ==
    (RelayMethods \ {"eth_requestAccounts"})
    \cup {"eth_uninstallFilter", "eth_getFilterChanges", "eth_getFilterLogs"}

\* request.params as the handlers see it: ok says whether the values the
\* handler coerces (ensureBuffer, ensureHexString, ensureAddressString,
\* ensureBN, ensureIntNumber) are well formed; from is the transaction's
\* from field, <<>> when missing or empty.
ParamsOf(method) ==
    IF method \in TransactionMethods
    THEN [ok : BOOLEAN, from : {<<>>, A2, A3, <<"0", "x", "A", "B">>, <<"0", "x", "g", "1">>}]
    ELSE IF method \in ParamMethods
    THEN [ok : BOOLEAN, from : {<<>>}]
    ELSE [ok : {TRUE}, from : {<<>>}]

\* The parameters that matter to _handleSynchronousMethods, and the answers
\* the Filter Delegate may give to uninstallFilter.
SyncParamsOf(method) ==
    IF method = "eth_uninstallFilter" THEN ParamsOf(method)
    ELSE {[ok |-> TRUE, from |-> <<>>]}

RemovedOf(method, params) ==
    IF method = "eth_uninstallFilter" /\ params.ok THEN BOOLEAN ELSE {FALSE}

\* The params a caller passes: an array, whose content the handlers see as
\* value, or nothing at all.
GivenArray(value) == [shape |-> "array", value |-> value]

\* What the handlers see of an empty parameter list: a transaction handler
\* takes {} for params[0], every other handler that reads a parameter fails
\* to coerce undefined.
EmptyParams(method) ==
    [ok |-> method \notin (ParamMethods \ TransactionMethods), from |-> <<>>]

GivenNothing(method) == [shape |-> "undefined", value |-> EmptyParams(method)]

GivenParams(method) ==
    { GivenArray(p) : p \in ParamsOf(method) } \cup {GivenNothing(method)}

SyncGivenParams(method) ==
    { GivenArray(p) : p \in SyncParamsOf(method) } \cup {GivenNothing(method)}

\* request.params || [] (lines 272, 296, 355).
HandlerParams(method, reqParams) ==
    IF reqParams.shape = "undefined" THEN EmptyParams(method) ELSE reqParams.value

\* The request id of a callback-style call; send(method, params) uses 1.
CallbackId == 7
PromiseId == 1

Surfaces == {"callback", "promise"}

IdOf(surface) == IF surface = "callback" THEN CallbackId ELSE PromiseId

\* The request send(method, params) builds (lines 129-136): an array is
\* taken as it is, no params become [] and any other value is wrapped in an
\* array.  The variant below builds every request with [].
PromiseRequestWithoutParams(method, given) ==
    [id |-> PromiseId, method |-> method,
     params |-> GivenArray(EmptyParams(method))]

PromiseRequest(method, given) ==
    [id |-> PromiseId, method |-> method,
     params |-> IF given.shape = "array" THEN given
                ELSE IF given.shape = "undefined"
                THEN GivenArray(EmptyParams(method))
                ELSE GivenArray(given.value)]

\* The request a callback-style caller hands over.
CallbackRequest(method, given) ==
    [id |-> CallbackId, method |-> method, params |-> given]

\* The request that reaches _sendRequestAsync from a surface, and the
\* parameters its handler sees.
RequestOf(surface, method, given) ==
    IF surface = "promise" THEN PromiseRequest(method, given)
    ELSE CallbackRequest(method, given)

SeenParams(surface, method, given) ==
    HandlerParams(method, RequestOf(surface, method, given).params)

\* --------------------------------------------------------------- results
NoResult == [t |-> "undefined", v |-> <<>>]
NullResult == [t |-> "null", v |-> <<>>]
ListResult(l) == [t |-> "list", v |-> l]
TextResult(s) == [t |-> "string", v |-> s]
BoolResult(b) == [t |-> "boolean", v |-> IF b THEN <<"true">> ELSE <<"false">>]
\* A value a delegate produced, passed through untouched.
DelegateResult == [t |-> "delegate", v |-> <<"r">>]

\* selectedAddress
SelectedAddress(addrs) == IF Len(addrs) > 0 THEN TextResult(addrs[1]) ELSE NoResult

\* _eth_coinbase
EthCoinbase(addrs) == IF Len(addrs) > 0 THEN TextResult(addrs[1]) ELSE NullResult

\* _net_version.  The variant below answers with the default chain id.
NetVersionDefault(cfg) == TextResult(ToDecimal(1))

NetVersion(cfg) == TextResult(ToDecimal(cfg.chainId))

\* The networkVersion accessor.
NetworkVersion(cfg) == TextResult(ToDecimal(cfg.chainId))

\* _handleSynchronousMethods: the value returned (undefined for a method
\* that has no case), or the error thrown.  removed is the Filter
\* Delegate's answer to uninstallFilter.
HandleSynchronousMethods(method, params, addrs, cfg, removed) ==
    CASE method = "eth_accounts" ->
             [threw |-> FALSE, error |-> NoError, result |-> ListResult(addrs)]
      [] method = "eth_coinbase" ->
             [threw |-> FALSE, error |-> NoError, result |-> EthCoinbase(addrs)]
      [] method = "eth_uninstallFilter" ->
             IF params.ok
             THEN [threw |-> FALSE, error |-> NoError, result |-> BoolResult(removed)]
             ELSE [threw |-> TRUE, error |-> PlainError(<<"invalid hex string">>),
                   result |-> NoResult]
      [] method = "net_version" ->
             [threw |-> FALSE, error |-> NoError, result |-> NetVersion(cfg)]
      [] OTHER ->
             [threw |-> FALSE, error |-> NoError, result |-> NoResult]

\* The error _sendRequest throws for a method it cannot answer at once.
SynchronousUnsupported(method) ==
    PlainError(<<"WalletLink does not support calling ", method,
                 " synchronously without a callback. Please provide a callback parameter to call ",
                 method, " asynchronously.">>)

\* _sendRequest: [threw, error, id, result].  The variant below returns the
\* response without looking at the result.
SendRequestUnchecked(id, method, params, addrs, cfg, removed) ==
    LET h == HandleSynchronousMethods(method, params, addrs, cfg, removed)
    IN  [threw |-> h.threw, error |-> h.error, id |-> id, result |-> h.result]

SendRequest(id, method, params, addrs, cfg, removed) ==
    LET h == HandleSynchronousMethods(method, params, addrs, cfg, removed)
    IN  IF h.threw
        THEN [threw |-> TRUE, error |-> h.error, id |-> id, result |-> NoResult]
        ELSE IF h.result.t = "undefined"
        THEN [threw |-> TRUE, error |-> SynchronousUnsupported(method), id |-> id,
              result |-> NoResult]
        ELSE [threw |-> FALSE, error |-> NoError, id |-> id, result |-> h.result]

\* A JSON-RPC response as the callback surfaces deliver it.
Response(id, result) == [id |-> id, result |-> result]

\* The ids a collaborator may put on what it answers.
ForeignIds == {0, 99}

\* The response the handler of an asynchronous method resolves with: the
\* relay handlers and the three new-filter handlers build it with id 0 (for
\* instance lines 436, 482, 604); getFilterChanges and getFilterLogs pass on
\* the Filter Delegate's response and the fall-through passes on the
\* endpoint's body (line 347), whose id is the collaborator's, foreignId.
HandlerResponse(method, result, foreignId) ==
    Response(IF method \in RelayMethods
                \/ method \in {"eth_newFilter", "eth_newBlockFilter",
                               "eth_newPendingTransactionFilter"}
             THEN 0 ELSE foreignId,
             result)

\* What the promise of _sendRequestAsync resolves with for the request with
\* id id: a response built around the synchronous result (lines 240-244), or
\* the handler's response with the request's id put over its own (lines 249
\* and 259).  The variant below passes the handler's response on as it is.
ResolveWithHandlerResponse(id, method, result, foreignId) ==
    IF method \in SyncMethods THEN Response(id, result)
    ELSE HandlerResponse(method, result, foreignId)

ResolveWith(id, method, result, foreignId) ==
    IF method \in SyncMethods THEN Response(id, result)
    ELSE [HandlerResponse(method, result, foreignId) EXCEPT !.id = id]

\* The handler of _sendRequestAsync that takes a request.  h is what
\* _handleSynchronousMethods gave; the tables are tried in the order of lines
\* 238-258: synchronous, filter, relay, and the endpoint for what is left.
\* The variant below leaves the filter table out.
HandlerOfWithoutFilters(method, h) ==
    IF h.threw \/ h.result.t # "undefined" THEN "synchronous"
    ELSE IF method \in RelayMethods THEN "relay"
    ELSE "remote"

HandlerOf(method, h) ==
    IF h.threw \/ h.result.t # "undefined" THEN "synchronous"
    ELSE IF method \in FilterMethods THEN "filter"
    ELSE IF method \in RelayMethods THEN "relay"
    ELSE "remote"

\* ------------------------------------------------------- relay handlers
\* _requireAuthorization passes.
Authorized(addrs) == Len(addrs) > 0

Unauthorized == ProviderError(<<"Unauthorized">>, "UNAUTHORIZED")

UserDeniedAccountAccess ==
    ProviderError(<<"User denied account authorization">>, "USER_DENIED_REQUEST_ACCOUNTS")

UserDeniedSignature(what) ==
    ProviderError(<<"User denied ", what, " signature">>, "USER_DENIED_REQUEST_SIGNATURE")

\* Methods that call _requireAuthorization first.
AuthorizationMethods ==
    {"eth_sign", "personal_sign", "eth_signTransaction", "eth_sendTransaction"}

\* The Relay Delegate operation each relay-table method awaits.
RelayOperation(method) ==
    CASE method = "eth_requestAccounts" -> "requestEthereumAccounts"
      [] method \in {"eth_sign", "personal_sign"} -> "signEthereumMessage"
      [] method \in {"eth_ecRecover", "personal_ecRecover"} ->
             "ethereumAddressFromSignedMessage"
      [] method = "eth_signTransaction" -> "signEthereumTransaction"
      [] method = "eth_sendRawTransaction" -> "submitEthereumTransaction"
      [] method = "eth_sendTransaction" -> "signAndSubmitEthereumTransaction"

\* _prepareTransactionParams, as far as it can fail: the from address is
\* resolved and checked first, the other fields are coerced after.  The
\* variant below does not look the from address up in the address list.
PrepareTransactionParamsAnyFrom(params, addrs) ==
    IF params.from # <<>> /\ ~IsAddress(params.from)
    THEN [threw |-> TRUE, error |-> PlainError(<<"Invalid Ethereum address">>),
          fromAddress |-> <<>>]
    ELSE LET fromAddress == IF params.from # <<>> THEN EnsureAddressString(params.from)
                            ELSE IF Len(addrs) > 0 THEN addrs[1] ELSE <<>>
         IN  IF fromAddress = <<>>
             THEN [threw |-> TRUE,
                   error |-> PlainError(<<"Ethereum address is unavailable">>),
                   fromAddress |-> <<>>]
             ELSE IF ~params.ok
             THEN [threw |-> TRUE, error |-> PlainError(<<"invalid value">>),
                   fromAddress |-> fromAddress]
             ELSE [threw |-> FALSE, error |-> NoError, fromAddress |-> fromAddress]

PrepareTransactionParams(params, addrs) ==
    IF params.from # <<>> /\ ~IsAddress(params.from)
    THEN [threw |-> TRUE, error |-> PlainError(<<"Invalid Ethereum address">>),
          fromAddress |-> <<>>]
    ELSE LET fromAddress == IF params.from # <<>> THEN EnsureAddressString(params.from)
                            ELSE IF Len(addrs) > 0 THEN addrs[1] ELSE <<>>
         IN  IF fromAddress = <<>>
             THEN [threw |-> TRUE,
                   error |-> PlainError(<<"Ethereum address is unavailable">>),
                   fromAddress |-> <<>>]
             ELSE IF ~\E i \in 1..Len(addrs) : addrs[i] = fromAddress
             THEN [threw |-> TRUE, error |-> PlainError(<<"Unknown Ethereum address">>),
                   fromAddress |-> fromAddress]
             ELSE IF ~params.ok
             THEN [threw |-> TRUE, error |-> PlainError(<<"invalid value">>),
                   fromAddress |-> fromAddress]
             ELSE [threw |-> FALSE, error |-> NoError, fromAddress |-> fromAddress]

\* The optional fields of a raw transaction.
OptionalFields == {"to", "value", "data", "nonce", "gasPrice", "gas"}

\* Raw transactions: the from field as in ParamsOf, the optional fields that
\* are given, and whether the given values are well formed.
RawTransactions ==
    [ok : BOOLEAN,
     from : {<<>>, A2, A3, <<"0", "x", "A", "B">>, <<"0", "x", "g", "1">>},
     given : SUBSET OptionalFields]

\* A field of the returned params: the coerced value when the raw field is
\* given, the default of lines 395-400 when it is not.
FieldOrDefault(tx, field, default) ==
    IF field \in tx.given THEN <<"given", field>> ELSE <<default>>

\* _prepareTransactionParams: the error thrown, or the params returned.
TransactionParams(tx, addrs, cfg) ==
    LET r == PrepareTransactionParams(tx, addrs)
    IN  IF r.threw THEN [threw |-> TRUE, error |-> r.error, params |-> <<>>]
        ELSE [threw |-> FALSE, error |-> NoError,
              params |-> [fromAddress |-> r.fromAddress,
                          toAddress |-> FieldOrDefault(tx, "to", "null"),
                          weiValue |-> FieldOrDefault(tx, "value", "0"),
                          data |-> FieldOrDefault(tx, "data", "empty"),
                          nonce |-> FieldOrDefault(tx, "nonce", "null"),
                          gasPriceInWei |-> FieldOrDefault(tx, "gasPrice", "null"),
                          gasLimit |-> FieldOrDefault(tx, "gas", "null"),
                          chainId |-> cfg.chainId]]

\* The part of a relay-table handler (other than request-accounts) that runs
\* before its relay call: the error it rejects with, or none.  The variant
\* below asks for authorization in every handler.
BeforeRelayCallAllAuthorized(method, params, addrs) ==
    IF ~Authorized(addrs) THEN Unauthorized
    ELSE IF method \in TransactionMethods
    THEN PrepareTransactionParams(params, addrs).error
    ELSE IF ~params.ok THEN PlainError(<<"invalid value">>)
    ELSE NoError

BeforeRelayCall(method, params, addrs) ==
    IF method \in AuthorizationMethods /\ ~Authorized(addrs) THEN Unauthorized
    ELSE IF method \in TransactionMethods
    THEN PrepareTransactionParams(params, addrs).error
    ELSE IF ~params.ok THEN PlainError(<<"invalid value">>)
    ELSE NoError

\* What a relay-table handler rejects with when its relay call rejects with
\* err.  The variant below remaps in every handler.
RelayRejectionRemapAll(method, err) ==
    IF MatchesDenial(err)
    THEN (IF method = "eth_requestAccounts" THEN UserDeniedAccountAccess
          ELSE IF method \in TransactionMethods THEN UserDeniedSignature("transaction")
          ELSE UserDeniedSignature("message"))
    ELSE err

RelayRejection(method, err) ==
    CASE method = "eth_requestAccounts" /\ MatchesDenial(err) -> UserDeniedAccountAccess
      [] method \in {"eth_sign", "personal_sign"} /\ MatchesDenial(err) ->
             UserDeniedSignature("message")
      [] method \in TransactionMethods /\ MatchesDenial(err) ->
             UserDeniedSignature("transaction")
      [] OTHER -> err

\* -------------------------------------------------------- linking window
\* Lines 438-442 of _eth_requestAccounts: a tracked window that still has
\* its opener is focused, otherwise the relay opens a new one.  Windows are
\* numbered in the order the relay opens them; 0 is no window (null).
NextWindow(wins) == CHOOSE w \in DOMAIN wins : wins[w] = "unopened" /\
                        \A v \in DOMAIN wins : wins[v] = "unopened" => w <= v

Controllable(handle, wins) == handle # 0 /\ wins[handle] = "open"

\* The variant below opens a window on every call.
LinkingWindowAlwaysOpen(handle, wins) ==
    IF \A w \in DOMAIN wins : wins[w] # "unopened"
    THEN [handle |-> handle, windows |-> wins, act |-> "focused"]
    ELSE [handle |-> NextWindow(wins),
          windows |-> [wins EXCEPT ![NextWindow(wins)] = "open"],
          act |-> "opened"]

LinkingWindow(handle, wins) ==
    IF Controllable(handle, wins)
    THEN [handle |-> handle, windows |-> wins, act |-> "focused"]
    ELSE [handle |-> NextWindow(wins),
          windows |-> [wins EXCEPT ![NextWindow(wins)] = "open"],
          act |-> "opened"]

\* The finally block of _eth_requestAccounts (lines 458-464).  settled says
\* how the relay call ended.  The variant below cleans up after a resolved
\* relay call only.
CloseLinkingWindowOnSuccess(handle, wins, settled) ==
    IF handle # 0 /\ settled = "resolved"
    THEN [handle |-> 0, windows |-> [wins EXCEPT ![handle] = "closed"], act |-> "closed"]
    ELSE [handle |-> handle, windows |-> wins, act |-> "none"]

CloseLinkingWindow(handle, wins, settled) ==
    IF handle # 0
    THEN [handle |-> 0, windows |-> [wins EXCEPT ![handle] = "closed"], act |-> "closed"]
    ELSE [handle |-> handle, windows |-> wins, act |-> "none"]

\* ----------------------------------------------------------------- state
VARIABLES
    config,           \* _appName, _chainId, _jsonRpcUrl of the provider instance
    addresses,        \* _addresses
    walletLinkWindow, \* _walletLinkWindow: a window number, 0 for null
    windows,          \* the windows this instance had the relay open
    storage,          \* walletLinkStorage: key -> stored value
    persisted,        \* key -> the list a provider instance last persisted there
    pending,          \* calls awaiting a delegate (a bag of call records)
    lastEmitted,      \* the latest accountsChanged notification
    batch,            \* the batch sendAsync is joining, and its callback's invocations
    lastOp            \* the operation that just ran and what its caller got

vars == <<config, addresses, walletLinkWindow, windows, storage, persisted,
          pending, lastEmitted, batch, lastOp>>

\* No batch has been sent.
NoBatch == [reqs |-> <<>>, elems |-> <<>>, order |-> <<>>, calls |-> <<>>]

NoOp ==
    [op |-> "none", method |-> "none", surface |-> "none", id |-> 0,
     outcome |-> "none", result |-> NoResult, error |-> NoError,
     relay |-> {}, window |-> "none", win |-> 0, before |-> <<>>,
     setCalled |-> FALSE, input |-> Absent, relayError |-> NoError,
     paramsOk |-> TRUE, handler |-> "none", reached |-> {},
     tx |-> [ok |-> TRUE, from |-> <<>>, given |-> {}], txParams |-> <<>>,
     writeFailed |-> FALSE, fetches |-> 0, fetched |-> "none",
     reqs |-> <<>>, delivered |-> <<>>]

NoWindows == [w \in 1..MaxWindows |-> "unopened"]

\* Values a storage slot may hold before any provider wrote to it.
ForeignValues ==
    { Absent, Unreadable, NonArray, Arr(<<A1, <<"0", "x", "g", "1">>>>) }

Call(method, surface, await, win) ==
    [method |-> method, surface |-> surface, await |-> await, win |-> win]

PendingCalls == BagToSet(pending)

PendingAccounts == { c \in PendingCalls : c.method = "eth_requestAccounts" }

\* Room for one more call awaiting a delegate.
Room(method) ==
    /\ BagCardinality(pending) < MaxPending
    /\ method # "eth_requestAccounts" =>
          BagCardinality(pending) - BagCardinality(
              [c \in PendingAccounts |-> pending[c]]) < MaxDelegated

Add(call) == pending (+) SetToBag({call})
Remove(call) == pending (-) SetToBag({call})

\* The provider as its constructor leaves it over storage store.
Constructed(cfg, store) ==
    /\ config = cfg
    /\ storage = store
    /\ addresses = Restore(cfg, store).addresses
    /\ walletLinkWindow = 0
    /\ windows = NoWindows
    /\ pending = EmptyBag
    /\ batch = NoBatch
    /\ lastEmitted = [seen |-> FALSE, list |-> <<>>]
    /\ lastOp = [NoOp EXCEPT !.op = "constructor", !.outcome = "constructed",
                             !.setCalled = Restore(cfg, store).setCalled,
                             !.input = store[LocalStorageAddressesKey(cfg)]]

EmptyStorage == [k \in StorageKeys |-> Absent]

NotPersisted == [set |-> FALSE, list |-> <<>>]

\* A provider constructed over storage that is empty, or that holds the list
\* an instance of the same identity persisted before.
Init ==
    \E cfg \in Configs : \E v \in {Absent, Arr(<<A1, A2>>)} :
        /\ Constructed(cfg, [EmptyStorage EXCEPT ![LocalStorageAddressesKey(cfg)] = v])
        /\ persisted = [k \in StorageKeys |->
                            IF k = LocalStorageAddressesKey(cfg) /\ v # Absent
                            THEN [set |-> TRUE, list |-> v.items] ELSE NotPersisted]

\* A provider constructed over empty storage.
InitLink ==
    \E cfg \in Configs :
        /\ Constructed(cfg, EmptyStorage)
        /\ persisted = [k \in StorageKeys |-> NotPersisted]

\* A provider constructed over storage of which one slot holds a value that
\* no provider wrote.
InitStore ==
    \E cfg \in Configs : \E k \in StorageKeys : \E v \in ForeignValues :
        /\ Constructed(cfg, [EmptyStorage EXCEPT ![k] = v])
        /\ persisted = [x \in StorageKeys |-> NotPersisted]

\* new WalletLinkProvider(options): the page is loaded again over the same
\* storage; the calls and windows of the instance before are left behind.
Construct(o) ==
    IF ~OptionsAccepted(o)
    THEN /\ lastOp' = [NoOp EXCEPT !.op = "constructor", !.outcome = "threw",
                          !.error = PlainError(IF ~o.relay THEN <<"realy must be provided">>
                                               ELSE <<"jsonRpcUrl must be provided">>)]
         /\ UNCHANGED <<batch, config, addresses, walletLinkWindow, windows, storage,
                        persisted, pending, lastEmitted>>
    ELSE LET cfg == ConfigOf(o)
             r == Restore(cfg, storage)
         IN  /\ config' = cfg
             /\ addresses' = r.addresses
             /\ walletLinkWindow' = 0
             /\ windows' = NoWindows
             /\ pending' = EmptyBag
             /\ batch' = NoBatch
             /\ lastEmitted' = [seen |-> FALSE, list |-> <<>>]
             /\ lastOp' = [NoOp EXCEPT !.op = "constructor", !.outcome = "constructed",
                              !.setCalled = r.setCalled,
                              !.input = storage[LocalStorageAddressesKey(cfg)]]
             /\ UNCHANGED <<storage, persisted>>

\* ----------------------------------------------------- immediate surface
\* send(request) without a callback: _sendRequest.
SendSync(method, params, removed) ==
    LET r == SendRequest(CallbackId, method, params, addresses, config, removed)
    IN  /\ lastOp' = [NoOp EXCEPT !.op = "send", !.method = method,
                         !.surface = "immediate", !.id = r.id,
                         !.outcome = IF r.threw THEN "threw" ELSE "returned",
                         !.result = r.result, !.error = r.error,
                         !.before = addresses]
        /\ UNCHANGED <<batch, config, addresses, walletLinkWindow, windows, storage,
                       persisted, pending, lastEmitted>>

\* The page reads provider.networkVersion.
GetNetworkVersion ==
    /\ lastOp' = [NoOp EXCEPT !.op = "networkVersion", !.outcome = "returned",
                              !.result = NetworkVersion(config), !.before = addresses]
    /\ UNCHANGED <<batch, config, addresses, walletLinkWindow, windows, storage,
                   persisted, pending, lastEmitted>>

\* -------------------------------------------------- asynchronous surfaces
\* What the caller of an asynchronous surface gets when _sendRequestAsync
\* settles: a callback gets the response (id and result) or the error, the
\* promise of send(method, params) gets the result alone or the error.
Settled(op, method, surface, err, result) ==
    [NoOp EXCEPT !.op = op, !.method = method, !.surface = surface,
                 !.id = IdOf(surface),
                 !.outcome = IF err = NoError THEN "resolved" ELSE "rejected",
                 !.result = IF err = NoError THEN result ELSE NoResult,
                 !.error = err, !.before = addresses]

\* A settled call whose promise resolved carries the id of the response
\* _sendRequestAsync resolved with.
Answered(op, foreignId) ==
    IF op.outcome = "resolved"
    THEN [op EXCEPT !.id = ResolveWith(IdOf(op.surface), op.method, op.result,
                                       foreignId).id]
    ELSE op

Suspended(method, surface, relayCalls) ==
    [NoOp EXCEPT !.op = "call", !.method = method, !.surface = surface,
                 !.id = IdOf(surface), !.outcome = "pending",
                 !.relay = relayCalls, !.before = addresses]

\* The handler of _sendRequestAsync that takes a request in the present state.
Handler(method, params, removed) ==
    HandlerOf(method, HandleSynchronousMethods(method, params, addresses, config, removed))

\* lastOp with the handler that took the request and the collaborators
\* (Filter Delegate, Relay Delegate, endpoint) it went on to call.
Handled(op, handler, reached) == [op EXCEPT !.handler = handler, !.reached = reached]

\* _sendRequestAsync, a method of the synchronous table: settles at once.
CallSynchronousMethod(surface, method, params, removed) ==
    /\ Handler(method, params, removed) = "synchronous"
    /\ LET h == HandleSynchronousMethods(method, params, addresses, config, removed)
       IN  lastOp' = Handled(Answered(Settled("call", method, surface, h.error,
                                              h.result), 0),
                             "synchronous", {})
    /\ UNCHANGED <<batch, config, addresses, walletLinkWindow, windows, storage,
                   persisted, pending, lastEmitted>>

\* _sendRequestAsync, a method of the filter table: the Filter Delegate is
\* called unless the filter id is malformed.
CallFilterMethod(surface, method, params) ==
    /\ Handler(method, params, FALSE) = "filter"
    /\ IF method \in {"eth_getFilterChanges", "eth_getFilterLogs"} /\ ~params.ok
       THEN /\ lastOp' = Handled(Settled("call", method, surface,
                                         PlainError(<<"invalid hex string">>), NoResult),
                                 "filter", {})
            /\ UNCHANGED pending
       ELSE /\ Room(method)
            /\ pending' = Add(Call(method, surface, "filter", 0))
            /\ lastOp' = Handled(Suspended(method, surface, {}), "filter", {"filter"})
    /\ UNCHANGED <<batch, config, addresses, walletLinkWindow, windows, storage,
                   persisted, lastEmitted>>

\* _sendRequestAsync, a method of no table: window.fetch to the endpoint.
CallRemoteMethod(surface, method) ==
    /\ Handler(method, [ok |-> TRUE, from |-> <<>>], FALSE) = "remote"
    /\ Room(method)
    /\ pending' = Add(Call(method, surface, "fetch", 0))
    /\ lastOp' = [Handled(Suspended(method, surface, {}), "remote", {"remote"})
                     EXCEPT !.fetches = 1]
    /\ UNCHANGED <<batch, config, addresses, walletLinkWindow, windows, storage,
                   persisted, lastEmitted>>

\* _sendRequestAsync, a relay-table method other than request-accounts: the
\* handler runs up to its relay call.
CallRelayMethod(surface, method, params) ==
    /\ Handler(method, params, FALSE) = "relay"
    /\ method # "eth_requestAccounts"
    /\ LET err == BeforeRelayCall(method, params, addresses)
       IN  IF err # NoError
           THEN /\ lastOp' = [Handled(Settled("call", method, surface, err, NoResult),
                                      "relay", {})
                                 EXCEPT !.paramsOk = params.ok]
                /\ UNCHANGED pending
           ELSE /\ Room(method)
                /\ pending' = Add(Call(method, surface, "relay", 0))
                /\ lastOp' = Handled(Suspended(method, surface, {RelayOperation(method)}),
                                     "relay", {"relay"})
    /\ UNCHANGED <<batch, config, addresses, walletLinkWindow, windows, storage,
                   persisted, lastEmitted>>

\* The test of line 434: a cached list answers request-accounts.  The
\* variant below never finds one.
HasCachedAccountsNever(addrs) == FALSE

HasCachedAccounts(addrs) == Len(addrs) > 0

\* _eth_requestAccounts up to its relay call (lines 433-446), reached from
\* _sendRequestAsync; op is "call" or "enable".
StartRequestAccounts(op, surface) ==
    IF HasCachedAccounts(addresses)
    THEN /\ lastOp' = Handled(Answered(Settled(op, "eth_requestAccounts", surface,
                                               NoError, ListResult(addresses)), 0),
                              "relay", {})
         /\ UNCHANGED <<batch, config, addresses, walletLinkWindow, windows, storage,
                        persisted, pending, lastEmitted>>
    ELSE /\ Room("eth_requestAccounts")
         /\ Controllable(walletLinkWindow, windows)
               \/ \E w \in DOMAIN windows : windows[w] = "unopened"
         /\ LET lw == LinkingWindow(walletLinkWindow, windows)
            IN  /\ walletLinkWindow' = lw.handle
                /\ windows' = lw.windows
                /\ pending' = Add(Call("eth_requestAccounts", surface, "relay", lw.handle))
                /\ lastOp' = [Suspended("eth_requestAccounts", surface,
                                        IF lw.act = "opened"
                                        THEN {"openWalletLinkWindow", "requestEthereumAccounts"}
                                        ELSE {"requestEthereumAccounts"})
                                 EXCEPT !.op = op, !.window = lw.act, !.win = lw.handle,
                                        !.handler = "relay", !.reached = {"relay"}]
         /\ UNCHANGED <<batch, config, addresses, storage, persisted, lastEmitted>>

CallRequestAccounts(surface) ==
    /\ Handler("eth_requestAccounts", [ok |-> TRUE, from |-> <<>>], FALSE) = "relay"
    /\ StartRequestAccounts("call", surface)

\* enable(): the cached list, or send("eth_requestAccounts").
Enable ==
    IF Len(addresses) > 0
    THEN /\ lastOp' = Settled("enable", "eth_requestAccounts", "promise", NoError,
                              ListResult(addresses))
         /\ UNCHANGED <<batch, config, addresses, walletLinkWindow, windows, storage,
                        persisted, pending, lastEmitted>>
    ELSE StartRequestAccounts("enable", "promise")

\* ------------------------------------------------------------ completions
\* The relay resolves requestEthereumAccounts with res.result = value: the
\* rest of _eth_requestAccounts (lines 458-473) runs.
RelayResolveAccounts(call, value, writeOk) ==
    /\ call \in PendingAccounts
    /\ LET key == LocalStorageAddressesKey(config)
           cw == CloseLinkingWindow(walletLinkWindow, windows, "resolved")
           set == SetAddresses(addresses, value, TRUE, key, storage, writeOk)
           done == [Settled("relayResolved", call.method, call.surface, NoError, NoResult)
                       EXCEPT !.window = cw.act, !.win = walletLinkWindow]
       IN  /\ walletLinkWindow' = cw.handle
           /\ windows' = cw.windows
           /\ pending' = Remove(call)
           /\ IF ~Truthy(value)
              THEN /\ lastOp' = [done EXCEPT !.outcome = "rejected",
                                    !.error = PlainError(<<"accounts received is empty">>)]
                   /\ UNCHANGED <<addresses, storage, persisted, lastEmitted>>
              ELSE /\ addresses' = set.addresses
                   /\ storage' = set.storage
                   /\ persisted' = IF set.threw THEN persisted
                                   ELSE [persisted EXCEPT
                                            ![key] = [set |-> TRUE, list |-> set.addresses]]
                   /\ lastEmitted' = IF set.emitted
                                     THEN [seen |-> TRUE, list |-> set.addresses]
                                     ELSE lastEmitted
                   /\ lastOp' = [done EXCEPT
                                    !.id = IF set.threw THEN done.id
                                           ELSE ResolveWith(IdOf(call.surface), call.method,
                                                            ListResult(set.addresses), 0).id,
                                    !.outcome = IF set.threw THEN "rejected" ELSE "resolved",
                                    !.error = set.error,
                                    !.result = IF set.threw THEN NoResult
                                               ELSE ListResult(set.addresses),
                                    !.setCalled = TRUE, !.input = value,
                                    !.writeFailed =
                                       (set.error = PlainError(<<"storage write failed">>))]
    /\ UNCHANGED <<batch, config>>

\* The relay rejects requestEthereumAccounts with err.
RelayRejectAccounts(call, err) ==
    /\ call \in PendingAccounts
    /\ LET cw == CloseLinkingWindow(walletLinkWindow, windows, "rejected")
       IN  /\ walletLinkWindow' = cw.handle
           /\ windows' = cw.windows
           /\ pending' = Remove(call)
           /\ lastOp' = [Settled("relayRejected", call.method, call.surface,
                                 RelayRejection(call.method, err), NoResult)
                            EXCEPT !.window = cw.act, !.win = walletLinkWindow,
                                   !.relayError = err]
    /\ UNCHANGED <<batch, config, addresses, storage, persisted, lastEmitted>>

\* The relay resolves the call of another relay-table method.
RelayResolve(call) ==
    /\ call \in PendingCalls
    /\ call.await = "relay" /\ call.method # "eth_requestAccounts"
    /\ pending' = Remove(call)
    /\ lastOp' = Answered(Settled("relayResolved", call.method, call.surface, NoError,
                                  DelegateResult), 0)
    /\ UNCHANGED <<batch, config, addresses, walletLinkWindow, windows, storage,
                   persisted, lastEmitted>>

\* The relay rejects the call of another relay-table method with err.  In
\* the variant below the rejection of the handler's promise is passed on to
\* no one (line 260 left out): the call is never completed.
RelayRejectUnhandled(call, err) ==
    /\ call \in PendingCalls
    /\ call.await = "relay" /\ call.method # "eth_requestAccounts"
    /\ pending' = Remove(call)
    /\ lastOp' = [NoOp EXCEPT !.op = "unhandledRejection", !.method = call.method,
                              !.surface = call.surface, !.relayError = err,
                              !.before = addresses]
    /\ UNCHANGED <<batch, config, addresses, walletLinkWindow, windows, storage,
                   persisted, lastEmitted>>

RelayReject(call, err) ==
    /\ call \in PendingCalls
    /\ call.await = "relay" /\ call.method # "eth_requestAccounts"
    /\ pending' = Remove(call)
    /\ lastOp' = [Settled("relayRejected", call.method, call.surface,
                          RelayRejection(call.method, err), NoResult)
                     EXCEPT !.relayError = err]
    /\ UNCHANGED <<batch, config, addresses, walletLinkWindow, windows, storage,
                   persisted, lastEmitted>>

FilterError == [name |-> "FilterError", msgIsString |-> TRUE,
                message |-> <<"f">>, code |-> "filter", data |-> "none"]

\* The Filter Delegate settles a filter-table call.
FilterSettle(call, ok) ==
    /\ call \in PendingCalls
    /\ call.await = "filter"
    /\ pending' = Remove(call)
    /\ \E f \in ForeignIds :
          lastOp' = Answered(Settled(IF ok THEN "filterResolved" ELSE "filterRejected",
                                     call.method, call.surface,
                                     IF ok THEN NoError ELSE FilterError, DelegateResult),
                             f)
    /\ UNCHANGED <<batch, config, addresses, walletLinkWindow, windows, storage,
                   persisted, lastEmitted>>

TransportError == [name |-> "TypeError", msgIsString |-> TRUE,
                   message |-> <<"Failed to fetch">>, code |-> "none", data |-> "none"]

\* How a fetch may end: the transport fails, the body is no JSON, the parsed
\* body is empty (null, false, 0, ""), it carries an error with or without a
\* message, it carries a null error, it is a response.
FetchOutcomes ==
    {"transport", "notJson", "empty", "error", "errorNoMessage", "nullError", "response"}

\* The error field of the parsed body; present says whether it is truthy.
BodyError(outcome) ==
    CASE outcome = "error" ->
             [present |-> TRUE, message |-> <<"remote message">>,
              code |-> "remote code", data |-> "remote data"]
      [] outcome = "errorNoMessage" ->
             [present |-> TRUE, message |-> <<>>, code |-> "remote code",
              data |-> "remote data"]
      [] OTHER -> [present |-> FALSE, message |-> <<>>, code |-> "none", data |-> "none"]

\* The then-chain of _handleAsynchronousMethods (lines 331-348): what the
\* call rejects with, NoError when it resolves.  The variant below does not
\* look at the body's error field.
FetchErrorUnchecked(outcome) ==
    CASE outcome = "transport" -> TransportError
      [] outcome = "notJson" ->
             [name |-> "SyntaxError", msgIsString |-> TRUE,
              message |-> <<"Unexpected token">>, code |-> "none", data |-> "none"]
      [] outcome = "empty" -> ProviderError(<<"unexpected response">>, "undefined")
      [] OTHER -> NoError

FetchError(outcome) ==
    CASE outcome = "transport" -> TransportError
      [] outcome = "notJson" ->
             [name |-> "SyntaxError", msgIsString |-> TRUE,
              message |-> <<"Unexpected token">>, code |-> "none", data |-> "none"]
      [] outcome = "empty" -> ProviderError(<<"unexpected response">>, "undefined")
      [] BodyError(outcome).present ->
             ProviderErrorWithData(IF BodyError(outcome).message = <<>>
                                   THEN <<"RPC Error">>
                                   ELSE BodyError(outcome).message,
                                   BodyError(outcome).code, BodyError(outcome).data)
      [] OTHER -> NoError

\* The fetch of a forwarded call settles; no further request is made.
FetchSettle(call, outcome) ==
    /\ call \in PendingCalls
    /\ call.await = "fetch"
    /\ pending' = Remove(call)
    /\ \E f \in ForeignIds :
          lastOp' = [Answered(Settled("fetchSettled", call.method, call.surface,
                                      FetchError(outcome), DelegateResult), f)
                        EXCEPT !.fetched = outcome]
    /\ UNCHANGED <<batch, config, addresses, walletLinkWindow, windows, storage,
                   persisted, lastEmitted>>

\* scanQRCode(match) up to its relay call (line 191): ensureRegExpString
\* throws on a match that is no regular expression.
ScanQRCode(matchOk) ==
    /\ IF ~matchOk
       THEN /\ lastOp' = Settled("scanQRCode", "scanQRCode", "promise",
                                 PlainError(<<"invalid value">>), NoResult)
            /\ UNCHANGED pending
       ELSE /\ Room("scanQRCode")
            /\ pending' = Add(Call("scanQRCode", "promise", "scan", 0))
            /\ lastOp' = [Suspended("scanQRCode", "promise", {"scanQRCode"})
                             EXCEPT !.op = "scanQRCode"]
    /\ UNCHANGED <<batch, config, addresses, walletLinkWindow, windows, storage,
                   persisted, lastEmitted>>

\* What the relay may answer to scanQRCode: a string, a result that is no
\* string, or a rejection.
ScanOutcomes == {"string", "notString", "rejected"}

\* What scanQRCode rejects with: the relay's own error, or its complaint
\* about a result that is no string.
ScanError(outcome) ==
    CASE outcome = "string" -> NoError
      [] outcome = "notString" -> PlainError(<<"result was not a string">>)
      [] OTHER -> [name |-> "RelayError", msgIsString |-> TRUE,
                   message |-> <<"t", "i", "m", "e", "o", "u", "t">>,
                   code |-> "relay", data |-> "none"]

\* The rest of scanQRCode (lines 191-195).  The variant below runs the
\* clean-up of the linking window when the scan fails.
ScanQRCodeSettleClosingWindow(call, outcome) ==
    /\ call \in PendingCalls
    /\ call.await = "scan"
    /\ pending' = Remove(call)
    /\ lastOp' = Settled("scanSettled", call.method, call.surface,
                         ScanError(outcome), TextResult(<<"q", "r">>))
    /\ walletLinkWindow' = IF outcome = "string" THEN walletLinkWindow ELSE 0
    /\ UNCHANGED <<batch, config, addresses, windows, storage,
                   persisted, lastEmitted>>

ScanQRCodeSettle(call, outcome) ==
    /\ call \in PendingCalls
    /\ call.await = "scan"
    /\ pending' = Remove(call)
    /\ lastOp' = Settled("scanSettled", call.method, call.surface,
                         ScanError(outcome), TextResult(<<"q", "r">>))
    /\ UNCHANGED <<batch, config, addresses, walletLinkWindow, windows, storage,
                   persisted, lastEmitted>>

\* The user closes a linking window: its opener is gone from then on.
UserClosesWindow(w) ==
    /\ windows[w] = "open"
    /\ windows' = [windows EXCEPT ![w] = "closed"]
    /\ lastOp' = [NoOp EXCEPT !.op = "userClosedWindow", !.win = w,
                              !.before = addresses]
    /\ UNCHANGED <<batch, config, addresses, walletLinkWindow, storage, persisted,
                   pending, lastEmitted>>

\* ------------------------------------------------ transaction normalizer
\* _prepareTransactionParams applied to a raw transaction in the present state.
NormalizeTransaction(tx) ==
    /\ LET r == TransactionParams(tx, addresses, config)
       IN  lastOp' = [NoOp EXCEPT !.op = "prepareTransactionParams",
                                  !.outcome = IF r.threw THEN "threw" ELSE "returned",
                                  !.error = r.error, !.before = addresses,
                                  !.tx = tx, !.txParams = r.params]
    /\ UNCHANGED <<batch, config, addresses, walletLinkWindow, windows, storage,
                   persisted, pending, lastEmitted>>

\* ---------------------------------------------------------------- batches
\* The request id of element i of a batch.
BatchId(i) == CallbackId + i

\* The methods batches are built from: two of the synchronous table that
\* answer, two whose filter id is read, one of each other table.  (A batch
\* may carry any method; request-accounts and its window are followed in the
\* linking flow.)
BatchMethods ==
    {"eth_accounts", "net_version", "eth_uninstallFilter", "eth_getFilterLogs",
     "eth_newBlockFilter", "eth_sign", "eth_blockNumber"}

\* The requests of a batch: each method with well-formed parameters, except
\* that the two filter-id methods come with a malformed id.
BatchRequests ==
    { [method |-> m,
       params |-> [ok |-> m \notin {"eth_uninstallFilter", "eth_getFilterLogs"},
                   from |-> <<>>],
       removed |-> TRUE] : m \in BatchMethods }

Batches == UNION { [1..n -> BatchRequests] : n \in 1..MaxBatch }

\* One promise of _sendRequestAsync: how it stands, the delegate it awaits,
\* and tick, which says whether a rejection happened in the promise's
\* executor (0: a throw caught at lines 254-256) or in an async handler,
\* whose rejection arrives through the chain of lines 258-260 (1).
Resolved(result) ==
    [state |-> "resolved", await |-> "none", result |-> result, error |-> NoError,
     tick |-> 0, id |-> 0]
Rejected(err, tick) ==
    [state |-> "rejected", await |-> "none", result |-> NoResult, error |-> err,
     tick |-> tick, id |-> 0]
Awaiting(delegate) ==
    [state |-> "pending", await |-> delegate, result |-> NoResult, error |-> NoError,
     tick |-> 0, id |-> 0]

\* An element's promise with, once it has resolved, the id of the response
\* it resolved with (0 until then).
Element(id, method, promise, foreignId) ==
    IF promise.state = "resolved"
    THEN [promise EXCEPT !.id = ResolveWith(id, method, promise.result, foreignId).id]
    ELSE promise

\* _sendRequestAsync up to its first suspension (for request-accounts
\* without the linking window, which StartRequestAccounts follows).
SendRequestAsync(method, params, addrs, cfg, removed) ==
    LET h == HandleSynchronousMethods(method, params, addrs, cfg, removed)
        handler == HandlerOf(method, h)
    IN  CASE handler = "synchronous" ->
                 IF h.threw THEN Rejected(h.error, 0) ELSE Resolved(h.result)
          [] handler = "filter" ->
                 IF method \in {"eth_getFilterChanges", "eth_getFilterLogs"} /\ ~params.ok
                 THEN Rejected(PlainError(<<"invalid hex string">>), 0)
                 ELSE Awaiting("filter")
          [] handler = "relay" /\ method = "eth_requestAccounts" ->
                 IF HasCachedAccounts(addrs) THEN Resolved(ListResult(addrs))
                 ELSE Awaiting("relay")
          [] handler = "relay" ->
                 IF BeforeRelayCall(method, params, addrs) # NoError
                 THEN Rejected(BeforeRelayCall(method, params, addrs), 1)
                 ELSE Awaiting("relay")
          [] OTHER -> Awaiting("fetch")

\* The order in which the promises that settled during the call reach
\* Promise.all: those settled in their executor first, then those of the
\* async handlers, each group in input order.
RECURSIVE IndicesWhere(_, _, _)
IndicesWhere(elems, i, tick) ==
    IF i > Len(elems) THEN <<>>
    ELSE (IF elems[i].state # "pending" /\ elems[i].tick = tick THEN <<i>> ELSE <<>>)
         \o IndicesWhere(elems, i + 1, tick)

SettleOrder(elems) == IndicesWhere(elems, 1, 0) \o IndicesWhere(elems, 1, 1)

NullList == [isNull |-> TRUE, list |-> <<>>]

\* Promise.all (line 267) over the elements' promises; order lists the
\* settled elements, earliest first.  It rejects with the first rejection and
\* resolves, once every element has resolved, with the responses in input
\* order.  The variant below lists the responses as they arrived.
PromiseAllArrivalOrder(reqs, elems, order) ==
    LET rejected == { k \in 1..Len(order) : elems[order[k]].state = "rejected" }
    IN  IF rejected # {}
        THEN [state |-> "rejected",
              error |-> elems[order[CHOOSE k \in rejected : \A j \in rejected : k <= j]].error,
              responses |-> NullList]
        ELSE IF Len(order) = Len(reqs)
        THEN [state |-> "resolved", error |-> NoError,
              responses |-> [isNull |-> FALSE,
                             list |-> [k \in 1..Len(order) |->
                                          Response(elems[order[k]].id, elems[order[k]].result)]]]
        ELSE [state |-> "pending", error |-> NoError, responses |-> NullList]

PromiseAll(reqs, elems, order) ==
    LET rejected == { k \in 1..Len(order) : elems[order[k]].state = "rejected" }
    IN  IF rejected # {}
        THEN [state |-> "rejected",
              error |-> elems[order[CHOOSE k \in rejected : \A j \in rejected : k <= j]].error,
              responses |-> NullList]
        ELSE IF \A i \in 1..Len(reqs) : elems[i].state = "resolved"
        THEN [state |-> "resolved", error |-> NoError,
              responses |-> [isNull |-> FALSE,
                             list |-> [i \in 1..Len(reqs) |->
                                          Response(elems[i].id, elems[i].result)]]]
        ELSE [state |-> "pending", error |-> NoError, responses |-> NullList]

CallbackError == [name |-> "CallbackError", msgIsString |-> TRUE,
                  message |-> <<"thrown by the callback">>, code |-> "none", data |-> "none"]

\* The callback invocations that lines 177-179 add when Promise.all goes from
\* before to after: .then calls it with the responses, and .catch calls it
\* with the rejection, or with what the callback threw inside .then.
Invocations(before, after, cbThrows) ==
    IF before.state # "pending" \/ after.state = "pending" THEN <<>>
    ELSE IF after.state = "rejected"
    THEN <<[error |-> after.error, responses |-> NullList]>>
    ELSE <<[error |-> NoError, responses |-> after.responses]>>
         \o (IF cbThrows THEN <<[error |-> CallbackError, responses |-> NullList]>>
             ELSE <<>>)

PendingJoin == [state |-> "pending", error |-> NoError, responses |-> NullList]

BatchOp(op) == [NoOp EXCEPT !.op = op, !.before = addresses]

\* sendAsync(requests[], callback): every element goes through
\* _sendRequestAsync, and what has settled by then reaches Promise.all.  One
\* batch is followed from its call to the settling of its last element; its
\* elements leave the provider's own state as it is.
SendAsyncBatch(reqs, cbThrows) ==
    /\ batch = NoBatch
    /\ LET elems == [i \in 1..Len(reqs) |->
                        Element(BatchId(i), reqs[i].method,
                                SendRequestAsync(reqs[i].method, reqs[i].params,
                                                 addresses, config, reqs[i].removed),
                                0)]
           order == SettleOrder(elems)
       IN  batch' = [reqs |-> reqs, elems |-> elems, order |-> order,
                     calls |-> Invocations(PendingJoin, PromiseAll(reqs, elems, order),
                                           cbThrows)]
    /\ lastOp' = BatchOp("sendAsyncBatch")
    /\ UNCHANGED <<config, addresses, walletLinkWindow, windows, storage,
                   persisted, pending, lastEmitted>>

\* What the caller of a batch holds for one element: a response, an error,
\* or nothing.
GotResponse(r) == [kind |-> "response", response |-> Response(r.id, r.result),
                   error |-> NoError]
GotError(err) == [kind |-> "error", response |-> Response(0, NoResult), error |-> err]
GotNothing == [kind |-> "nothing", response |-> Response(0, NoResult), error |-> NoError]

\* _sendRequest on element i alone, as the caller of a single call sees it.
SingleOutcome(reqs, i, addrs, cfg) ==
    LET r == SendRequest(BatchId(i), reqs[i].method, reqs[i].params, addrs, cfg,
                         reqs[i].removed)
    IN  IF r.threw THEN GotError(r.error) ELSE GotResponse(r)

\* requests.map(r => this._sendRequest(r)) (line 150): the first element
\* whose _sendRequest throws ends the map, and send throws that error; the
\* responses made before are dropped and the elements after are not run.
MapSendRequest(reqs, addrs, cfg) ==
    LET outcomes == [i \in 1..Len(reqs) |-> SingleOutcome(reqs, i, addrs, cfg)]
        failing == { i \in 1..Len(reqs) : outcomes[i].kind = "error" }
    IN  IF failing = {}
        THEN [threw |-> FALSE, error |-> NoError, delivered |-> outcomes]
        ELSE LET first == CHOOSE i \in failing : \A j \in failing : i <= j
             IN  [threw |-> TRUE, error |-> outcomes[first].error,
                  delivered |-> [i \in 1..Len(reqs) |->
                                    IF i = first THEN outcomes[i] ELSE GotNothing]]

\* send(requests[]) without a callback.
SendBatch(reqs) ==
    /\ batch = NoBatch
    /\ LET r == MapSendRequest(reqs, addresses, config)
       IN  lastOp' = [NoOp EXCEPT !.op = "sendBatch", !.surface = "immediate",
                                  !.outcome = IF r.threw THEN "threw" ELSE "returned",
                                  !.error = r.error, !.before = addresses,
                                  !.reqs = reqs, !.delivered = r.delivered]
    /\ UNCHANGED <<batch, config, addresses, walletLinkWindow, windows, storage,
                   persisted, pending, lastEmitted>>

\* What the delegate an element awaits may reject it with.
ElementErrors(req) ==
    CASE req.method \in RelayMethods -> { RelayRejection(req.method, e) : e \in RelayErrors }
      [] req.method \in FilterMethods -> {FilterError}
      [] OTHER -> { FetchError(o) : o \in {"transport", "empty"} }

\* A delegate settles element i of the batch: with err = NoError it resolves.
BatchElementSettle(i, err, cbThrows) ==
    /\ i \in 1..Len(batch.elems)
    /\ batch.elems[i].state = "pending"
    /\ err = NoError \/ err \in ElementErrors(batch.reqs[i])
    /\ \E f \in ForeignIds :
       LET elems == [batch.elems EXCEPT
                        ![i] = IF err = NoError
                               THEN Element(BatchId(i), batch.reqs[i].method,
                                            Resolved(DelegateResult), f)
                               ELSE Rejected(err, 1)]
           order == Append(batch.order, i)
       IN  batch' = [batch EXCEPT
                        !.elems = elems, !.order = order,
                        !.calls = batch.calls \o
                            Invocations(PromiseAll(batch.reqs, batch.elems, batch.order),
                                        PromiseAll(batch.reqs, elems, order), cbThrows)]
    /\ lastOp' = BatchOp("batchElementSettled")
    /\ UNCHANGED <<config, addresses, walletLinkWindow, windows, storage,
                   persisted, pending, lastEmitted>>

\* ------------------------------------------------------------------ spec
\* The dispatcher: every method through sendAsync(request, callback) and
\* send(method, params), with the delegates settling the calls they were
\* given.
Next ==
    \/ \E s \in Surfaces : \E m \in Methods : \E p \in SyncParamsOf(m) :
          \E b \in RemovedOf(m, p) : CallSynchronousMethod(s, m, p, b)
    \/ \E s \in Surfaces : \E m \in Methods : \E p \in ParamsOf(m) :
          CallFilterMethod(s, m, p)
    \/ \E s \in Surfaces : \E m \in Methods : CallRemoteMethod(s, m)
    \/ \E s \in Surfaces : \E m \in Methods : \E p \in ParamsOf(m) :
          CallRelayMethod(s, m, p)
    \/ \E s \in Surfaces : CallRequestAccounts(s)
    \/ \E c \in PendingCalls : RelayResolve(c)
    \/ \E c \in PendingCalls : \E e \in RelayErrors : RelayReject(c, e)
    \/ \E c \in PendingCalls : \E ok \in BOOLEAN : FilterSettle(c, ok)
    \/ \E c \in PendingCalls : \E o \in FetchOutcomes : FetchSettle(c, o)
    \/ GetNetworkVersion
    \/ \E ok \in BOOLEAN : ScanQRCode(ok)
    \/ \E c \in PendingCalls : \E o \in ScanOutcomes : ScanQRCodeSettle(c, o)

Spec == Init /\ [][Next]_vars

\* The linking flow: overlapping request-accounts calls, the relay settling
\* them in any order, the user closing linking windows.
NextLink ==
    \/ \E s \in Surfaces : CallRequestAccounts(s)
    \/ Enable
    \/ \E c \in PendingCalls : \E v \in LooseValues : \E w \in BOOLEAN :
          RelayResolveAccounts(c, v, w)
    \/ \E c \in PendingCalls : \E e \in RelayErrors : RelayRejectAccounts(c, e)
    \/ \E w \in 1..MaxWindows : UserClosesWindow(w)

SpecLink == InitLink /\ [][NextLink]_vars

\* The address store across provider instances: lists are committed by
\* request-accounts and restored by the constructor.
NextStore ==
    \/ \E o \in Options : Construct(o)
    \/ \E s \in Surfaces : CallRequestAccounts(s)
    \/ \E c \in PendingCalls : \E v \in LooseValues : \E w \in BOOLEAN :
          RelayResolveAccounts(c, v, w)

SpecStore == InitStore /\ [][NextStore]_vars

\* Batches: send(requests[]), and sendAsync(requests[], callback) with the
\* delegates settling the elements in any order.
NextBatch ==
    \/ \E reqs \in Batches : SendBatch(reqs)
    \/ \E reqs \in Batches : \E t \in BOOLEAN : SendAsyncBatch(reqs, t)
    \/ \E i \in 1..MaxBatch : \E t \in BOOLEAN :
          \E e \in {NoError, UserDeniedSignature("message"), FilterError,
                  FetchError("transport"), FetchError("empty")} \cup RelayErrors :
             BatchElementSettle(i, e, t)

SpecBatch == Init /\ [][NextBatch]_vars

\* The transaction normalizer over every raw transaction, on a provider
\* with and without authorized addresses.
NextTx == \E tx \in RawTransactions : NormalizeTransaction(tx)

SpecTx == Init /\ [][NextTx]_vars

\* The callback surface: sendAsync(request, callback) for every method, with
\* parameters its handler accepts, and the delegates answering the calls;
\* then sendAsync(requests[], callback) once no single call is pending.
NextCallback ==
    \/ /\ batch = NoBatch
       /\ \E m \in Methods : \E p \in SyncParamsOf(m) : \E b \in RemovedOf(m, p) :
             CallSynchronousMethod("callback", m, p, b)
    \/ /\ batch = NoBatch
       /\ \E m \in Methods : CallFilterMethod("callback", m, [ok |-> TRUE, from |-> <<>>])
    \/ /\ batch = NoBatch
       /\ \E m \in Methods : CallRemoteMethod("callback", m)
    \/ /\ batch = NoBatch
       /\ \E m \in Methods : CallRelayMethod("callback", m, [ok |-> TRUE, from |-> <<>>])
    \/ /\ batch = NoBatch
       /\ CallRequestAccounts("callback")
    \/ \E c \in PendingCalls : RelayResolve(c)
    \/ \E c \in PendingCalls : RelayResolveAccounts(c, Arr(<<A1, A2>>), TRUE)
    \/ \E c \in PendingCalls : \E ok \in BOOLEAN : FilterSettle(c, ok)
    \/ \E c \in PendingCalls : \E o \in FetchOutcomes : FetchSettle(c, o)
    \/ /\ pending = EmptyBag
       /\ \E reqs \in Batches : \E t \in BOOLEAN : SendAsyncBatch(reqs, t)
    \/ \E i \in 1..MaxBatch : \E t \in BOOLEAN :
          \E e \in {NoError, FilterError, FetchError("empty")} :
             BatchElementSettle(i, e, t)

SpecCallback == Init /\ [][NextCallback]_vars

\* The calls whose completion is followed to the end: request-accounts and
\* one method of the relay table, of the filter table and of no table, each
\* with parameters its handler accepts, so that it reaches its delegate.
LiveMethods == {"eth_requestAccounts", "eth_sendRawTransaction", "eth_newBlockFilter",
                "eth_blockNumber"}

\* The call records of those methods.
LiveCalls ==
    { Call("eth_requestAccounts", s, "relay", w) : s \in Surfaces, w \in 1..MaxWindows }
    \cup { Call("eth_sendRawTransaction", s, "relay", 0) : s \in Surfaces }
    \cup { Call("eth_newBlockFilter", s, "filter", 0) : s \in Surfaces }
    \cup { Call("eth_blockNumber", s, "fetch", 0) : s \in Surfaces }

\* How the relay rejects in the end: the user denies.
LiveRelayErrors ==
    { e \in RelayErrors : e.msgIsString /\ e.message = <<"D", "e", "n", "i", "e", "d">> }

\* The delegate that call awaits resolves or rejects, and the rest of the
\* handler and of _sendRequestAsync runs.
Complete(call) ==
    /\ call \in PendingCalls
    /\ IF call.method = "eth_requestAccounts"
       THEN \/ \E v \in {Absent, Arr(<<A1, A2>>)} : RelayResolveAccounts(call, v, TRUE)
            \/ \E e \in LiveRelayErrors : RelayRejectAccounts(call, e)
       ELSE IF call.await = "relay"
       THEN \/ RelayResolve(call)
            \/ \E e \in LiveRelayErrors : RelayReject(call, e)
       ELSE IF call.await = "filter"
       THEN \E ok \in BOOLEAN : FilterSettle(call, ok)
       ELSE \E o \in {"transport", "response"} : FetchSettle(call, o)

NextLive ==
    \/ \E s \in Surfaces : CallRequestAccounts(s)
    \/ \E s \in Surfaces : \E m \in LiveMethods :
          CallRelayMethod(s, m, [ok |-> TRUE, from |-> <<>>])
    \/ \E s \in Surfaces : \E m \in LiveMethods :
          CallFilterMethod(s, m, [ok |-> TRUE, from |-> <<>>])
    \/ \E s \in Surfaces : \E m \in LiveMethods : CallRemoteMethod(s, m)
    \/ \E c \in PendingCalls : Complete(c)

\* Every delegate call and every fetch eventually resolves or rejects.
DelegatesAnswer == \A c \in LiveCalls : WF_vars(Complete(c))

SpecLive == InitLink /\ [][NextLive]_vars /\ DelegatesAnswer

\* The calling conventions: send(request), sendAsync(request, callback) and
\* send(method, params) over every method, with an array of params or with
\* none, up to the hand-over to a delegate.
NextConventions ==
    \/ \E m \in Methods : \E g \in SyncGivenParams(m) :
          \E b \in RemovedOf(m, HandlerParams(m, g)) :
             SendSync(m, HandlerParams(m, g), b)
    \/ \E s \in Surfaces : \E m \in Methods : \E g \in SyncGivenParams(m) :
          \E b \in RemovedOf(m, SeenParams(s, m, g)) :
             CallSynchronousMethod(s, m, SeenParams(s, m, g), b)
    \/ \E s \in Surfaces : \E m \in Methods : \E g \in GivenParams(m) :
          CallFilterMethod(s, m, SeenParams(s, m, g))
    \/ \E s \in Surfaces : \E m \in Methods : CallRemoteMethod(s, m)
    \/ \E s \in Surfaces : \E m \in Methods : \E g \in GivenParams(m) :
          CallRelayMethod(s, m, SeenParams(s, m, g))

SpecConventions == Init /\ [][NextConventions]_vars

\* ------------------------------------------------------------ properties
AccountsCall ==
    lastOp.method = "eth_requestAccounts" /\ lastOp.op \in {"call", "enable"}

AccountsSettled ==
    lastOp.method = "eth_requestAccounts"
    /\ lastOp.op \in {"relayResolved", "relayRejected"}

\* The relay messages that carry "denied" or "rejected" in some letter case.
DenialMessages ==
    { <<"D", "e", "n", "i", "e", "d">>,
      <<"x", " ", "R", "E", "J", "E", "C", "T", "E", "D", "!">> }

SaysDenied(err) == err.msgIsString /\ err.message \in DenialMessages

\* C1: send(request) without a callback, for a method outside the
\* synchronous table, throws the error that names the method and tells the
\* caller to pass a callback; it returns no response.
C1_SynchronousUnsupported ==
    (lastOp.op = "send" /\ lastOp.surface = "immediate"
     /\ lastOp.method \notin {"eth_accounts", "eth_coinbase", "net_version",
                              "eth_uninstallFilter"})
    => /\ lastOp.outcome = "threw"
       /\ lastOp.result.t = "undefined"
       /\ lastOp.error.name = "Error"
       /\ lastOp.error.message =
             <<"WalletLink does not support calling ", lastOp.method,
               " synchronously without a callback. Please provide a callback parameter to call ",
               lastOp.method, " asynchronously.">>

C1_Witness ==
    /\ lastOp.op = "send" /\ lastOp.method = "eth_getFilterLogs"
    /\ lastOp.outcome = "threw"
    /\ Len(addresses) > 0
    /\ pending # EmptyBag

\* C2: a request-accounts call made while the address list is not empty
\* resolves with that list, calls no relay operation, opens and focuses no
\* window, and leaves the list as it is.
C2_CachedAccounts ==
    (AccountsCall /\ Len(lastOp.before) > 0)
    => /\ lastOp.outcome = "resolved"
       /\ lastOp.result.t = "list" /\ lastOp.result.v = lastOp.before
       /\ lastOp.relay = {}
       /\ lastOp.window = "none"
       /\ addresses = lastOp.before

C2_Witness ==
    /\ AccountsCall /\ lastOp.op = "call"
    /\ lastOp.before = <<A1, A2>>
    /\ lastOp.outcome = "resolved"
    /\ PendingAccounts # {}

\* C3: eth_sign, personal_sign, eth_signTransaction and eth_sendTransaction
\* called with no authorized address reject with Unauthorized and call no
\* relay operation; eth_sendRawTransaction, eth_ecRecover and
\* personal_ecRecover, given well-formed parameters, call their relay
\* operation whether or not an address is authorized.
C3_Authorization ==
    /\ (lastOp.op = "call" /\ lastOp.before = <<>>
        /\ lastOp.method \in {"eth_sign", "personal_sign", "eth_signTransaction",
                              "eth_sendTransaction"})
       => /\ lastOp.outcome = "rejected"
          /\ lastOp.error.name = "ProviderError"
          /\ lastOp.error.message = <<"Unauthorized">>
          /\ lastOp.error.code = "UNAUTHORIZED"
          /\ lastOp.relay = {}
    /\ (lastOp.op = "call" /\ lastOp.paramsOk
        /\ lastOp.method \in {"eth_sendRawTransaction", "eth_ecRecover",
                              "personal_ecRecover"})
       => /\ lastOp.outcome = "pending"
          /\ lastOp.relay = {RelayOperation(lastOp.method)}

C3_Witness ==
    /\ lastOp.op = "call" /\ lastOp.method = "eth_sendRawTransaction"
    /\ lastOp.before = <<>>
    /\ lastOp.outcome = "pending"
    /\ lastOp.relay = {"submitEthereumTransaction"}

\* C4: a rejected request-accounts relay call fails with
\* UserDeniedAccountAccess when the relay's message says denied or rejected
\* in any letter case, and with the relay's own error otherwise; the address
\* list is left as it was, so it stays empty if it was empty.
C4_AccountsRejection ==
    (AccountsSettled /\ lastOp.op = "relayRejected")
    => /\ lastOp.outcome = "rejected"
       /\ SaysDenied(lastOp.relayError) =>
             /\ lastOp.error.name = "ProviderError"
             /\ lastOp.error.code = "USER_DENIED_REQUEST_ACCOUNTS"
             /\ lastOp.error.message = <<"User denied account authorization">>
       /\ ~SaysDenied(lastOp.relayError) => lastOp.error = lastOp.relayError
       /\ addresses = lastOp.before
       /\ lastOp.before = <<>> => addresses = <<>>

C4_Witness ==
    /\ AccountsSettled /\ lastOp.op = "relayRejected"
    /\ lastOp.relayError.message = <<"x", " ", "R", "E", "J", "E", "C", "T", "E", "D", "!">>
    /\ lastOp.error.code = "USER_DENIED_REQUEST_ACCOUNTS"
    /\ addresses = <<>>

SigningSettledRejected ==
    lastOp.op = "relayRejected" /\ lastOp.method # "eth_requestAccounts"

IsUserDeniedSignature(err, what) ==
    /\ err.name = "ProviderError"
    /\ err.code = "USER_DENIED_REQUEST_SIGNATURE"
    /\ err.message = <<"User denied ", what, " signature">>

ValidLists ==
    { <<>>, <<A1, A2>>, <<<<"0", "x", "A", "B">>, <<"C", "1">>>> }

SetInputValid == lastOp.input.kind = "array" /\ lastOp.input.items \in ValidLists

\* The entry as the store keeps it: the same hex digits, lower case, 0x first.
NormalFormOf(kept, given) ==
    /\ Len(kept) = AddressHexLen + 2
    /\ kept[1] = "0" /\ kept[2] = "x"
    /\ \A i \in 3..Len(kept) : kept[i] \in HexChars
    /\ LET digits == IF Len(given) = AddressHexLen THEN given
                     ELSE SubSeq(given, 3, Len(given))
       IN  \A i \in 1..AddressHexLen : ToLowerChar(digits[i]) = kept[i + 2]

\* _setAddresses failed on its input: the list is what it was before.
SetFailureKeepsList ==
    (lastOp.setCalled /\ ~SetInputValid)
    => /\ addresses = lastOp.before
       /\ lastOp.op = "relayResolved" => lastOp.outcome = "rejected"

\* C6 as stated: after a _setAddresses that succeeds on a valid list the
\* address list equals the list given; with an invalid entry, or an input
\* that is no array, the call fails and the address list is what it was
\* before.
C6_SetThenGetEqual ==
    /\ (lastOp.setCalled /\ SetInputValid /\ lastOp.outcome # "rejected")
       => addresses = lastOp.input.items
    /\ SetFailureKeepsList

\* C6 amended: after _setAddresses with a valid list the address list holds
\* the normal form (lower case, 0x prefix) of each entry given, in the order
\* given, which is the list given when that was in normal form already; with
\* an invalid entry, or an input that is no array, the call fails and the
\* address list is what it was before.
C6_SetAddressesAtomic ==
    /\ (lastOp.setCalled /\ SetInputValid)
       => /\ Len(addresses) = Len(lastOp.input.items)
          /\ \A i \in 1..Len(addresses) :
                NormalFormOf(addresses[i], lastOp.input.items[i])
          /\ lastOp.input.items = <<A1, A2>> => addresses = <<A1, A2>>
    /\ SetFailureKeepsList

C6_Witness ==
    /\ lastOp.setCalled /\ lastOp.op = "relayResolved"
    /\ lastOp.input = Arr(<<A1, <<"0", "x", "g", "1">>>>)
    /\ lastOp.before = <<A1, A2>>
    /\ addresses = <<A1, A2>>

\* C7: a provider constructed over storage in which an instance of the same
\* identity persisted its list starts with that list; over a slot that is
\* absent, unreadable, no array or an array with an invalid entry the
\* constructor does not throw and the provider starts with the empty list.
C7_RestoreOnConstruct ==
    (lastOp.op = "constructor" /\ lastOp.outcome = "constructed")
    => LET key == LocalStorageAddressesKey(config)
       IN  /\ persisted[key].set => addresses = persisted[key].list
           /\ (storage[key].kind \in {"absent", "unreadable", "object"}
               \/ (storage[key].kind = "array" /\ storage[key].items \notin ValidLists))
              => addresses = <<>>

\* The constructor throws on its options only.
C7_ConstructorThrows ==
    (lastOp.op = "constructor" /\ lastOp.outcome = "threw")
    => lastOp.error.message \in {<<"realy must be provided">>,
                                 <<"jsonRpcUrl must be provided">>}

C7_Restore == C7_RestoreOnConstruct /\ C7_ConstructorThrows

C7_Witness ==
    /\ lastOp.op = "constructor" /\ lastOp.outcome = "constructed"
    /\ persisted[LocalStorageAddressesKey(config)].set
    /\ addresses = <<A1, A2>>
    /\ \E k \in StorageKeys : storage[k].kind = "unreadable"

\* C8 as stated: when the relay resolves a request-accounts call and the
\* call resolves, the address list is not empty, is the list the caller got,
\* and is stored under the provider's key.
C8_ResolvedMeansAuthorized ==
    (AccountsSettled /\ lastOp.op = "relayResolved" /\ lastOp.outcome = "resolved")
    => /\ Len(addresses) > 0
       /\ lastOp.result.t = "list" /\ lastOp.result.v = addresses
       /\ storage[LocalStorageAddressesKey(config)] = Arr(addresses)

\* C9: a request-accounts relay call that settles, however it settles,
\* leaves no tracked window, and the window it tracked is closed; with no
\* request-accounts call pending, no window is tracked.
C9_NoWindowLeft ==
    /\ AccountsSettled
       => /\ walletLinkWindow = 0
          /\ lastOp.win # 0 => windows[lastOp.win] = "closed"
    /\ PendingAccounts = {} => walletLinkWindow = 0

C9_Witness ==
    /\ AccountsSettled /\ lastOp.op = "relayResolved"
    /\ lastOp.outcome = "rejected" /\ lastOp.setCalled
    /\ lastOp.window = "closed"
    /\ PendingAccounts = {}
    /\ walletLinkWindow = 0

OpenWindows == { w \in DOMAIN windows : windows[w] = "open" }

\* C10: at most one window that the provider had opened is open; a
\* request-accounts call that finds the tracked window still with its opener
\* focuses it, and one that opens a window finds no other open.
C10_OneLinkingWindow ==
    /\ Cardinality(OpenWindows) <= 1
    /\ (AccountsCall /\ lastOp.outcome = "pending" /\ lastOp.window = "opened")
       => OpenWindows = {lastOp.win}
    /\ (AccountsCall /\ lastOp.outcome = "pending" /\ lastOp.window = "focused")
       => /\ lastOp.relay = {"requestEthereumAccounts"}
          /\ walletLinkWindow = lastOp.win

C10_Witness ==
    /\ AccountsCall /\ lastOp.window = "focused"
    /\ BagCardinality(pending) = 2
    /\ OpenWindows = {walletLinkWindow}

BatchRejected == { i \in 1..Len(batch.elems) : batch.elems[i].state = "rejected" }

BatchAllResolved == \A i \in 1..Len(batch.elems) : batch.elems[i].state = "resolved"

\* C11: the callback of a batch is not invoked while an element is pending
\* and none has rejected; an invocation without error happens only when every
\* element has resolved and carries one response per request, in the order
\* of the requests; once an element has rejected the callback has been
\* invoked with the error of a rejected element and a null list.
C11_BatchCallback ==
    batch.reqs # <<>> =>
       /\ (BatchRejected = {} /\ ~BatchAllResolved) => batch.calls = <<>>
       /\ \A k \in 1..Len(batch.calls) :
             batch.calls[k].error = NoError =>
                /\ k = 1 /\ BatchAllResolved
                /\ ~batch.calls[k].responses.isNull
                /\ Len(batch.calls[k].responses.list) = Len(batch.reqs)
                /\ \A i \in 1..Len(batch.reqs) :
                      /\ batch.calls[k].responses.list[i].id = BatchId(i)
                      /\ batch.calls[k].responses.list[i].result = batch.elems[i].result
       /\ BatchAllResolved => (batch.calls # <<>> /\ batch.calls[1].error = NoError)
       /\ BatchRejected # {} =>
             /\ Len(batch.calls) = 1
             /\ batch.calls[1].responses.isNull
             /\ \E i \in BatchRejected : batch.calls[1].error = batch.elems[i].error

C11_Witness ==
    /\ Len(batch.reqs) = 2
    /\ batch.order = <<2, 1>>
    /\ batch.reqs[1].method = "eth_sign" /\ batch.reqs[2].method = "eth_blockNumber"
    /\ Len(batch.calls) = 1 /\ batch.calls[1].error = NoError

\* The pending calls that came through _sendRequestAsync (scanQRCode is a
\* method of the provider, not a request).
PendingRequests == { c \in PendingCalls : c.method # "scanQRCode" }

\* C12: on the asynchronous path a method of the synchronous table is
\* answered by the synchronous handler and reaches no collaborator; a
\* filter-table method is taken by the filter handler and reaches at most
\* the Filter Delegate; a relay-table method is taken by the relay handler
\* and reaches at most the Relay Delegate; the endpoint is reached by the
\* methods of no table and by no other; every call that awaits a collaborator
\* awaits the one of its own table.
C12_OneHandler ==
    /\ lastOp.op = "call" =>
          /\ lastOp.method \in SyncMethods =>
                (lastOp.handler = "synchronous" /\ lastOp.reached = {}
                 /\ lastOp.relay = {} /\ lastOp.outcome # "pending")
          /\ lastOp.method \in FilterMethods =>
                (lastOp.handler = "filter" /\ lastOp.reached \subseteq {"filter"}
                 /\ lastOp.relay = {})
          /\ lastOp.method \in RelayMethods =>
                (lastOp.handler = "relay" /\ lastOp.reached \subseteq {"relay"})
          /\ ("remote" \in lastOp.reached) <=>
                (lastOp.method \notin SyncMethods \cup FilterMethods \cup RelayMethods)
    /\ \A c \in PendingRequests :
          /\ c.method \notin SyncMethods
          /\ c.await = "filter" <=> c.method \in FilterMethods
          /\ c.await = "relay" <=> c.method \in RelayMethods
          /\ c.await = "fetch" <=>
                c.method \notin SyncMethods \cup FilterMethods \cup RelayMethods

C12_Witness ==
    /\ lastOp.op = "call" /\ lastOp.method = "eth_getFilterChanges"
    /\ lastOp.outcome = "pending" /\ lastOp.reached = {"filter"}
    /\ \E c \in PendingCalls : c.await = "filter"

\* The from address _prepareTransactionParams settles on: the given one in
\* normal form, else the selected address, else none.
ResolvedFrom(tx, list) ==
    IF tx.from # <<>> THEN <<"0", "x">> \o ToLower(Strip0x(tx.from))
    ELSE IF list # <<>> THEN list[1] ELSE <<>>

InList(a, list) == \E i \in 1..Len(list) : list[i] = a

\* C13: normalization throws "Ethereum address is unavailable" when the raw
\* transaction has no from and no address is selected; throws "Unknown
\* Ethereum address" when the resolved from address is not in the address
\* list; and for well-formed fields otherwise returns params whose
\* fromAddress is in the address list, whose chainId is the configured chain
\* id, and whose fields not given are weiValue 0, data empty, and null for
\* toAddress, nonce, gasPriceInWei and gasLimit.
C13_TransactionParams ==
    lastOp.op = "prepareTransactionParams" =>
       LET tx == lastOp.tx
           list == lastOp.before
           wellFormedFrom == tx.from = <<>> \/ IsAddress(tx.from)
           from == ResolvedFrom(tx, list)
       IN  /\ (tx.from = <<>> /\ list = <<>>) =>
                 /\ lastOp.outcome = "threw"
                 /\ lastOp.error = PlainError(<<"Ethereum address is unavailable">>)
           /\ (wellFormedFrom /\ from # <<>> /\ ~InList(from, list)) =>
                 /\ lastOp.outcome = "threw"
                 /\ lastOp.error = PlainError(<<"Unknown Ethereum address">>)
           /\ (wellFormedFrom /\ tx.ok /\ from # <<>> /\ InList(from, list)) =>
                 lastOp.outcome = "returned"
           /\ lastOp.outcome = "returned" =>
                 /\ lastOp.txParams.fromAddress = from
                 /\ InList(lastOp.txParams.fromAddress, list)
                 /\ lastOp.txParams.chainId = config.chainId
                 /\ "value" \notin tx.given => lastOp.txParams.weiValue = <<"0">>
                 /\ "data" \notin tx.given => lastOp.txParams.data = <<"empty">>
                 /\ "nonce" \notin tx.given => lastOp.txParams.nonce = <<"null">>
                 /\ "to" \notin tx.given => lastOp.txParams.toAddress = <<"null">>
                 /\ "gasPrice" \notin tx.given => lastOp.txParams.gasPriceInWei = <<"null">>
                 /\ "gas" \notin tx.given => lastOp.txParams.gasLimit = <<"null">>

C13_Witness ==
    /\ lastOp.op = "prepareTransactionParams" /\ lastOp.outcome = "returned"
    /\ lastOp.tx.from = <<"0", "x", "A", "B">> /\ lastOp.tx.given = {"to", "gas"}
    /\ lastOp.txParams.fromAddress = A1
    /\ lastOp.txParams.chainId = 42

\* C14: a _setAddresses that succeeds emits accountsChanged with the new
\* list, and once the list of a provider that started empty has been
\* replaced, the latest notification carries the current list.
C14_NotificationTracksList ==
    /\ (lastOp.setCalled /\ lastOp.op = "relayResolved" /\ lastOp.outcome = "resolved")
          => lastEmitted = [seen |-> TRUE, list |-> addresses]
    /\ addresses # <<>> => (lastEmitted.seen /\ lastEmitted.list = addresses)

\* C15: when the storage write of _setAddresses(list, true) fails, the
\* request-accounts call that made it still resolves with the new list, which
\* is the address list.
C15_WriteFailureNotFatal ==
    (lastOp.op = "relayResolved" /\ lastOp.method = "eth_requestAccounts"
     /\ lastOp.writeFailed)
    => /\ lastOp.outcome = "resolved"
       /\ lastOp.error = NoError
       /\ lastOp.result.t = "list" /\ lastOp.result.v = addresses

\* A decimal digit string read as a number.
RECURSIVE DecimalValue(_)
DecimalValue(s) ==
    IF s = <<>> THEN 0
    ELSE 10 * DecimalValue(SubSeq(s, 1, Len(s) - 1))
         + (CHOOSE d \in 0..9 : DigitChars[d + 1] = s[Len(s)])

\* C16: no step changes the configured chain id, and every answer to
\* net_version, on the callback and the promise surface, and every read of
\* networkVersion is a string of decimal digits that reads as the configured
\* chain id.
C16_NetworkVersion ==
    [][/\ config'.chainId = config.chainId
       /\ ((lastOp'.method = "net_version" \/ lastOp'.op = "networkVersion")
            => /\ lastOp'.outcome \in {"returned", "resolved"}
               /\ lastOp'.result.t = "string"
               /\ \A i \in 1..Len(lastOp'.result.v) :
                     \E d \in 1..10 : DigitChars[d] = lastOp'.result.v[i]
               /\ DecimalValue(lastOp'.result.v) = config.chainId)]_vars

C16_Witness ==
    /\ lastOp.op = "networkVersion"
    /\ lastOp.result.v = <<"4", "2">>
    /\ config.chainId = 42
    /\ Len(addresses) > 0 /\ pending # EmptyBag

\* C17: a call forwarded to the endpoint makes one fetch when it is made
\* and none when the fetch settles; it rejects with a ProviderError
\* "unexpected response" when the parsed body is empty, with a ProviderError
\* carrying the body's error message (or "RPC Error" when that is empty),
\* code and data when the body has an error, and with the transport's or the
\* parser's own error when the fetch or the parsing fails; otherwise it
\* resolves with the body's result under the request's id.
C17_RemoteFallback ==
    /\ (lastOp.op = "call" /\ "remote" \in lastOp.reached) =>
          (lastOp.fetches = 1 /\ lastOp.outcome = "pending")
    /\ lastOp.op = "fetchSettled" =>
          /\ lastOp.fetches = 0 /\ lastOp.reached = {}
          /\ lastOp.fetched = "empty" =>
                /\ lastOp.outcome = "rejected"
                /\ lastOp.error.name = "ProviderError"
                /\ lastOp.error.message = <<"unexpected response">>
          /\ lastOp.fetched \in {"error", "errorNoMessage"} =>
                /\ lastOp.outcome = "rejected"
                /\ lastOp.error.name = "ProviderError"
                /\ lastOp.error.message =
                      (IF lastOp.fetched = "error" THEN <<"remote message">>
                       ELSE <<"RPC Error">>)
                /\ lastOp.error.code = "remote code"
                /\ lastOp.error.data = "remote data"
          /\ lastOp.fetched = "transport" =>
                (lastOp.outcome = "rejected" /\ lastOp.error = TransportError)
          /\ lastOp.fetched = "notJson" =>
                (lastOp.outcome = "rejected" /\ lastOp.error.name = "SyntaxError")
          /\ lastOp.fetched \in {"response", "nullError"} =>
                /\ lastOp.outcome = "resolved"
                /\ lastOp.result = DelegateResult
                /\ lastOp.id = IdOf(lastOp.surface)

C17_Witness ==
    /\ lastOp.op = "fetchSettled" /\ lastOp.fetched = "errorNoMessage"
    /\ lastOp.error.message = <<"RPC Error">>
    /\ lastOp.surface = "promise"

\* C18: after send(requests[]) the caller holds, for every element, the
\* response or the error that _sendRequest gives for that element alone.
C18_BatchElementsIndependent ==
    lastOp.op = "sendBatch" =>
       /\ Len(lastOp.delivered) = Len(lastOp.reqs)
       /\ \A i \in 1..Len(lastOp.reqs) :
             lastOp.delivered[i] = SingleOutcome(lastOp.reqs, i, lastOp.before, config)

\* What the caller of send(method, params) gets from a promise of
\* _sendRequestAsync that has settled: the result alone, or the error.
PromiseGets(start) == [error |-> start.error, result |-> start.result]

\* What the callback of a single call gets: the response, or the error.
CallbackGets(id, start) ==
    [error |-> start.error,
     response |-> IF start.state = "resolved" THEN Response(id, start.result)
                  ELSE Response(0, NoResult)]

C20_PendingCallKeepsWindow ==
    (AccountsSettled /\ lastOp.window = "closed") =>
        \A c \in PendingAccounts : c.win # lastOp.win

\* The operations that may change the address list or the window handle.
ChangesProvider(op) ==
    \/ op.op = "constructor"
    \/ op.method = "eth_requestAccounts"

\* C21: every step of an operation other than construction and
\* request-accounts (a synchronous-table, filter, relay or remote call, its
\* completion, a read of networkVersion, scanQRCode), whether it succeeds or
\* fails, leaves the address list and the linking-window handle as they were.
C21_FrameOfOtherOperations ==
    [][~ChangesProvider(lastOp') =>
          /\ addresses' = addresses
          /\ walletLinkWindow' = walletLinkWindow]_vars

\* A scan fails while a request-accounts call has a linking window tracked.
C21_Witness ==
    /\ lastOp.op = "scanSettled" /\ lastOp.outcome = "rejected"
    /\ walletLinkWindow # 0
    /\ PendingAccounts # {}

\* C22: a response the callback of a single call gets, from whichever
\* handler, has the id of the request; and in every list of responses the
\* callback of a batch gets, the response at each position has the id of
\* the request at that position.
C22_ResponseCarriesRequestId ==
    /\ (lastOp.surface = "callback" /\ lastOp.outcome = "resolved") =>
          lastOp.id = CallbackId
    /\ \A k \in 1..Len(batch.calls) :
          ~batch.calls[k].responses.isNull =>
             \A i \in 1..Len(batch.calls[k].responses.list) :
                batch.calls[k].responses.list[i].id = BatchId(i)

\* The endpoint has answered a single callback call.
C22_Witness ==
    /\ lastOp.op = "fetchSettled" /\ lastOp.surface = "callback"
    /\ lastOp.outcome = "resolved" /\ lastOp.fetched = "response"
    /\ lastOp.id = CallbackId

\* C23: the callback of sendAsync(requests[], callback) is invoked at most
\* once, and once Promise.all has settled (an element rejected, or all
\* resolved) it has been invoked exactly once, with an error and a null
\* list or with no error and the responses.
C23_CallbackOnce ==
    batch.reqs # <<>> =>
       /\ Len(batch.calls) <= 1
       /\ (BatchAllResolved \/ BatchRejected # {}) => Len(batch.calls) = 1
       /\ \A k \in 1..Len(batch.calls) :
             (batch.calls[k].error = NoError) <=> ~batch.calls[k].responses.isNull

\* The call of method on surface was handed to a delegate and awaits it.
AwaitsDelegate(method, surface) ==
    /\ lastOp.op \in {"call", "enable"} /\ lastOp.outcome = "pending"
    /\ lastOp.method = method /\ lastOp.surface = surface

\* A call of method on surface has completed: its callback was invoked or
\* its promise settled.
Completed(method, surface) ==
    /\ lastOp.op \in {"relayResolved", "relayRejected", "filterResolved",
                      "filterRejected", "fetchSettled"}
    /\ lastOp.outcome \in {"resolved", "rejected"}
    /\ lastOp.method = method /\ lastOp.surface = surface

\* C24: with every delegate call and fetch answered in the end, a call that
\* awaits a delegate is followed by the completion of a call of that method
\* on that surface; and a request-accounts call that opened or focused a
\* linking window is followed by its completion in a state where, if no
\* request-accounts call is pending any more, no linking window is tracked.
C24_EventuallyCompletes ==
    \A m \in LiveMethods : \A s \in Surfaces :
       AwaitsDelegate(m, s) ~>
          (/\ Completed(m, s)
           /\ (m = "eth_requestAccounts" /\ PendingAccounts = {}) => walletLinkWindow = 0)

\* A request-accounts call has left Linking with a rejection and no other is
\* pending.
C24_Witness ==
    /\ Completed("eth_requestAccounts", "callback")
    /\ lastOp.outcome = "rejected" /\ lastOp.window = "closed"
    /\ PendingAccounts = {} /\ walletLinkWindow = 0
====
